---- MODULE Spec2Model ----
(***************************************************************************)
(* SentinelOne PowerQuery backend (sigma/backends/sentinelone_pq).         *)
(*                                                                         *)
(* Text is modelled as a sequence of characters (one-character strings),   *)
(* so that joining, quoting and escaping act on characters as the Python   *)
(* code does.  Str(t) flattens such a sequence into one string, which is   *)
(* only used to write expected outputs readably.                           *)
(*                                                                         *)
(* A Python call either returns a text or raises: a call's outcome is the  *)
(* record [err, detail, text], err = "" when the call returned.            *)
(***************************************************************************)
EXTENDS Naturals, Sequences, FiniteSets, TLC

VARIABLES rule, query, output_format, value, pc, result, output

vars == <<rule, query, output_format, value, pc, result, output>>

-----------------------------------------------------------------------------
(* Bounds of the model *)

\* largest condition tree (in nodes) over the two plain leaves
MaxNodes == 5
\* largest condition tree (in nodes) over all the leaf kinds
MaxRichNodes == 3
\* longest SigmaString given to escape_value
MaxStrLen == 3
\* longest rule.fields list
MaxFields == 2

-----------------------------------------------------------------------------
(* Text helpers *)

RECURSIVE Str(_)
Str(t) == IF t = <<>> THEN "" ELSE Head(t) \o Str(Tail(t))

RECURSIVE Join(_, _)
\* Python's sep.join(parts), every part a text
Join(sep, parts) ==
    IF parts = <<>> THEN <<>>
    ELSE IF Len(parts) = 1 THEN parts[1]
    ELSE parts[1] \o sep \o Join(sep, Tail(parts))

Ok(t) == [err |-> "", detail |-> "", text |-> t]
Raise(e, d) == [err |-> e, detail |-> d, text |-> <<>>]

-----------------------------------------------------------------------------
(* The class attributes build_condition, escape_value and the finalizers read *)

token_separator == <<" ">>
or_token == <<"o", "r">>
and_token == <<"a", "n", "d">>
not_token == <<"n", "o", "t">>
eq_token == <<"=">>
str_quote == <<"\"">>
escape_char == <<"\\">>

\* re_expression = "{field} matches \"{regex}\""
re_expression(field, regex) ==
    field \o <<" ", "m", "a", "t", "c", "h", "e", "s", " ", "\"">> \o regex \o <<"\"">>

\* compare_op_expression = "{field} {operator} {value}"
compare_op_expression(field, operator, val) ==
    field \o <<" ">> \o operator \o <<" ">> \o val

\* declared by the class, read by no method of it
parenthesize == TRUE
convert_or_as_in == TRUE
convert_and_as_in == FALSE
in_expressions_allow_wildcards == FALSE

-----------------------------------------------------------------------------
(* Literals.  Iterating a SigmaString yields its characters and, where the  *)
(* pattern has a wildcard, a SpecialChars member instead of a character.    *)

SpecialChars == {"WILDCARD_MULTI", "WILDCARD_SINGLE"}

SigmaString(elems) == [kind |-> "SigmaString", s |-> elems]
SigmaRegularExpression(field, regex) ==
    [kind |-> "SigmaRegularExpression", field |-> field, regex |-> regex]
\* any other literal, with the text str() gives for it
OtherValue(kind, text) == [kind |-> kind, str |-> text]

RECURSIVE JoinElems(_, _)
\* sep.join(elems): str.join raises TypeError on the first item that is no str
JoinElems(sep, elems) ==
    IF elems = <<>> THEN Ok(<<>>)
    ELSE IF Head(elems) \in SpecialChars THEN Raise("TypeError", "SpecialChars")
    ELSE IF Len(elems) = 1 THEN Ok(<<Head(elems)>>)
    ELSE LET rest == JoinElems(sep, Tail(elems))
         IN  IF rest.err # "" THEN rest
             ELSE Ok(<<Head(elems)>> \o sep \o rest.text)

escape_value(v) ==
    IF v.kind = "SigmaString"
    THEN LET j == JoinElems(escape_char, v.s)
         IN  IF j.err # "" THEN j ELSE Ok(str_quote \o j.text \o str_quote)
    ELSE IF v.kind = "SigmaRegularExpression"
    THEN LET j == JoinElems(escape_char, v.regex)
         IN  IF j.err # "" THEN j ELSE Ok(re_expression(v.field, j.text))
    ELSE Ok(v.str)

-----------------------------------------------------------------------------
(* Condition trees *)

ConditionAND(subs) == [type |-> "ConditionAND", subconditions |-> subs]
ConditionOR(subs) == [type |-> "ConditionOR", subconditions |-> subs]
ConditionNOT(sub) == [type |-> "ConditionNOT", subcondition |-> sub]
ConditionFieldEqualsValueExpression(f, v) ==
    [type |-> "ConditionFieldEqualsValueExpression", field |-> f, value |-> v]
\* a ConditionItem of a class build_condition has no branch for
ConditionValueExpression(v) == [type |-> "ConditionValueExpression", value |-> v]
\* a Python list of conditions
CondList(items) == [type |-> "list", items |-> items]
\* rule.detection.condition as a str
CondStr(t) == [type |-> "str", text |-> t]

FirstError(rs) ==
    LET bad == {i \in 1..Len(rs) : rs[i].err # ""}
    IN  rs[CHOOSE i \in bad : \A j \in bad : i <= j]

\* sep.join(build_condition(c) for c in conds), given the outcomes of the calls:
\* the generator stops at the first call that raises
JoinBuilt(sep, rs) ==
    IF \E i \in 1..Len(rs) : rs[i].err # "" THEN FirstError(rs)
    ELSE Ok(Join(sep, [i \in 1..Len(rs) |-> rs[i].text]))

\* a negation that leaves an atomic operand bare: not f = v
not_expression_bare_atom(cond, r) ==
    IF cond.subcondition.type \in {"ConditionAND", "ConditionOR"}
    THEN Ok(not_token \o <<" ", "(">> \o r.text \o <<")">>)
    ELSE Ok(not_token \o <<" ">> \o r.text)

\* f"{self.not_token} ({...})", given the text r.text of the subcondition
not_expression(cond, r) ==
    Ok(not_token \o <<" ", "(">> \o r.text \o <<")">>)

RECURSIVE build_condition(_)
build_condition(cond) ==
    IF cond.type = "list"
    THEN IF Len(cond.items) = 1
         THEN build_condition(cond.items[1])
         ELSE LET j == JoinBuilt(token_separator,
                           [i \in 1..Len(cond.items) |-> build_condition(cond.items[i])])
              IN  IF j.err # "" THEN j ELSE Ok(<<"(">> \o j.text \o <<")">>)
    ELSE IF cond.type = "ConditionNOT"
    THEN LET r == build_condition(cond.subcondition)
         IN  IF r.err # "" THEN r ELSE not_expression(cond, r)
    ELSE IF cond.type = "ConditionAND"
    THEN JoinBuilt(<<" ">> \o and_token \o <<" ">>,
             [i \in 1..Len(cond.subconditions) |-> build_condition(cond.subconditions[i])])
    ELSE IF cond.type = "ConditionOR"
    THEN JoinBuilt(<<" ">> \o or_token \o <<" ">>,
             [i \in 1..Len(cond.subconditions) |-> build_condition(cond.subconditions[i])])
    ELSE IF cond.type = "ConditionFieldEqualsValueExpression"
    THEN LET e == escape_value(cond.value)
         IN  IF e.err # "" THEN e
             ELSE Ok(compare_op_expression(cond.field, eq_token, e.text))
    ELSE Raise("NotImplementedError", cond.type)

-----------------------------------------------------------------------------
(* The finishing steps *)

\* ' | columns '
columns_clause == <<" ", "|", " ", "c", "o", "l", "u", "m", "n", "s", " ">>

\* What self.convert(...) may do with a condition given as a str: the call leaves
\* this class, so its outcome is any of a few texts, or an exception.
ConvertOutcomes ==
    {Ok(<<>>), Ok(<<"f", " ", "=", " ", "\"", "a", "\"">>), Raise("SigmaError", "str")}

\* finalize_query_default, given the outcome c of the call that yields condition_str
finalize_query_default(r, q, c) ==
    IF c.err # "" THEN c
    ELSE LET q1 == q \o c.text
         IN  IF r.fields # <<>>
             THEN Ok(q1 \o columns_clause \o Join(<<",">>, r.fields))
             ELSE Ok(q1)

finalize_query_json(r, q) ==
    [err |-> "", detail |-> "",
     json |-> [query |-> q, title |-> r.title, id |-> r.id,
               description |-> r.description]]

finalize_output_default(queries) == queries

finalize_output_json(queries) == [queries |-> queries]

-----------------------------------------------------------------------------
(* Inputs *)

Chars == {"a", "\"", "\\"}

RECURSIVE SeqsUpTo(_, _)
\* the sequences over S of length at most n
SeqsUpTo(S, n) ==
    IF n = 0 THEN {<<>>}
    ELSE LET shorter == SeqsUpTo(S, n - 1)
         IN  shorter \cup {<<x>> \o t : x \in S, t \in {u \in shorter : Len(u) = n - 1}}

\* the literals escape_value is applied to
Literals ==
    {SigmaString(s) : s \in SeqsUpTo(Chars \cup {"WILDCARD_MULTI"}, MaxStrLen)}
    \cup {SigmaRegularExpression(<<"f">>, r) : r \in SeqsUpTo(Chars, 2)}
    \cup {OtherValue("SigmaNumber", <<"1">>), OtherValue("SigmaBool", <<"T", "r", "u", "e">>),
          OtherValue("object", <<"<", "o", "b", "j", ">">>)}

LeafValues ==
    {SigmaString(<<"a">>), SigmaString(<<"b">>),
     SigmaString(<<"a", "WILDCARD_MULTI">>),
     SigmaString(<<"WILDCARD_MULTI", "a">>),
     SigmaString(<<"WILDCARD_MULTI", "a", "WILDCARD_MULTI">>),
     OtherValue("SigmaNumber", <<"1">>),
     OtherValue("object", <<"<", "o", "b", "j", ">">>)}

Unknown == ConditionValueExpression(SigmaString(<<"k">>))
LeafA == ConditionFieldEqualsValueExpression(<<"f">>, SigmaString(<<"a">>))
LeafB == ConditionFieldEqualsValueExpression(<<"g">>, SigmaString(<<"b">>))

PlainLeaves == {LeafA, LeafB}
RichLeaves ==
    {ConditionFieldEqualsValueExpression(<<"f">>, v) : v \in LeafValues}
    \cup {ConditionFieldEqualsValueExpression(<<"g">>, SigmaString(<<"a">>)), Unknown}

RECURSIVE TreesOfSize(_, _), Forests(_, _, _)
\* the sequences of k trees over the leaves L with n nodes in all
Forests(n, k, L) ==
    IF k = 0 THEN (IF n = 0 THEN {<<>>} ELSE {})
    ELSE UNION {{<<t>> \o f : t \in TreesOfSize(m, L), f \in Forests(n - m, k - 1, L)} :
                m \in 1..n}
\* the condition trees over the leaves L with exactly n nodes
TreesOfSize(n, L) ==
    IF n = 0 THEN {}
    ELSE LET groups == UNION {Forests(n - 1, k, L) : k \in 0..(n - 1)}
         IN  (IF n = 1 THEN L ELSE {})
             \cup {ConditionNOT(t) : t \in TreesOfSize(n - 1, L)}
             \cup {ConditionAND(f) : f \in groups}
             \cup {ConditionOR(f) : f \in groups}

Trees(n, L) == UNION {TreesOfSize(m, L) : m \in 1..n}

ProcessName == <<"P", "r", "o", "c", "e", "s", "s", "N", "a", "m", "e">>
CommandLine == <<"C", "o", "m", "m", "a", "n", "d", "L", "i", "n", "e">>

\* the tree of the end-to-end scenario
ScenarioTree ==
    ConditionAND(<<
        ConditionFieldEqualsValueExpression(ProcessName,
            SigmaString(<<"p", "o", "w", "e", "r", "s", "h", "e", "l", "l", ".", "e", "x", "e">>)),
        ConditionOR(<<
            ConditionFieldEqualsValueExpression(CommandLine,
                SigmaString(<<"WILDCARD_MULTI", "-", "e", "n", "c", "WILDCARD_MULTI">>)),
            ConditionFieldEqualsValueExpression(CommandLine,
                SigmaString(<<"WILDCARD_MULTI", "-", "e", " ", "WILDCARD_MULTI">>))>>)>>)

\* the conditions build_condition is applied to: trees, and lists of trees
Conds ==
    Trees(MaxNodes, PlainLeaves) \cup Trees(MaxRichNodes, RichLeaves)
    \cup {CondList(f) : f \in UNION {Forests(n, k, PlainLeaves) : n \in 0..MaxRichNodes, k \in 0..MaxRichNodes}}
    \cup {ScenarioTree}

\* the conditions of the rules given to the finalizers
RuleConds ==
    {LeafA, Unknown, ConditionAND(<<>>), ConditionOR(<<LeafA, LeafB>>),
     CondList(<<LeafA>>), CondList(<<LeafA, LeafB>>), CondStr(<<"s", "e", "l">>),
     ScenarioTree}

Rules ==
    {[condition |-> c, fields |-> fs, title |-> <<"t">>, id |-> <<"1">>,
      description |-> <<"d">>] :
        c \in RuleConds, fs \in SeqsUpTo({ProcessName, CommandLine}, MaxFields)}

Queries == {<<>>, <<"q">>, <<"f", " ", "=", " ", "\"", "a", "\"">>}

NoRule ==
    [condition |-> LeafA, fields |-> <<>>, title |-> <<>>, id |-> <<>>,
     description |-> <<>>]
NoValue == SigmaString(<<>>)
NoResult == [err |-> "", detail |-> "none", text |-> <<>>]

-----------------------------------------------------------------------------
(* The conversion of one condition: build_condition(rule.detection.condition) *)

InitCompile ==
    /\ rule \in {[NoRule EXCEPT !.condition = c] : c \in Conds}
    /\ query = <<>>
    /\ output_format = "default"
    /\ value = NoValue
    /\ pc = "ready"
    /\ result = NoResult
    /\ output = <<>>

BuildCondition ==
    /\ pc = "ready"
    /\ result' = build_condition(rule.condition)
    /\ pc' = "built"
    /\ UNCHANGED <<rule, query, output_format, value, output>>

NextCompile == BuildCondition

SpecCompile == InitCompile /\ [][NextCompile]_vars

-----------------------------------------------------------------------------
(* The escaping of one literal: escape_value(value) *)

InitEscape ==
    /\ rule = NoRule
    /\ query = <<>>
    /\ output_format = "default"
    /\ value \in Literals
    /\ pc = "ready"
    /\ result = NoResult
    /\ output = <<>>

EscapeValue ==
    /\ pc = "ready"
    /\ result' = escape_value(value)
    /\ pc' = "escaped"
    /\ UNCHANGED <<rule, query, output_format, value, output>>

NextEscape == EscapeValue

SpecEscape == InitEscape /\ [][NextEscape]_vars

-----------------------------------------------------------------------------
(* The finishing of one rule's query in either output format *)

Init ==
    /\ rule \in Rules
    /\ query \in Queries
    /\ output_format \in {"default", "json"}
    /\ value = NoValue
    /\ pc = "ready"
    /\ result = NoResult
    /\ output = <<>>

FinalizeQueryDefault ==
    /\ pc = "ready"
    /\ output_format = "default"
    /\ \E c \in (IF rule.condition.type = "str" THEN ConvertOutcomes
                 ELSE {build_condition(rule.condition)}) :
           result' = finalize_query_default(rule, query, c)
    /\ pc' = "finalized"
    /\ UNCHANGED <<rule, query, output_format, value, output>>

FinalizeQueryJson ==
    /\ pc = "ready"
    /\ output_format = "json"
    /\ result' = finalize_query_json(rule, query)
    /\ pc' = "finalized"
    /\ UNCHANGED <<rule, query, output_format, value, output>>

FinalizeOutputDefault ==
    /\ pc = "finalized"
    /\ output_format = "default"
    /\ result.err = ""
    /\ output' = finalize_output_default(<<result.text>>)
    /\ pc' = "emitted"
    /\ UNCHANGED <<rule, query, output_format, value, result>>

FinalizeOutputJson ==
    /\ pc = "finalized"
    /\ output_format = "json"
    /\ output' = finalize_output_json(<<result.json>>)
    /\ pc' = "emitted"
    /\ UNCHANGED <<rule, query, output_format, value, result>>

Next ==
    \/ FinalizeQueryDefault
    \/ FinalizeQueryJson
    \/ FinalizeOutputDefault
    \/ FinalizeOutputJson

Spec == Init /\ [][Next]_vars

-----------------------------------------------------------------------------
(* Vocabulary of the properties *)

cond == rule.condition

IsGroup(c) == c.type \in {"ConditionAND", "ConditionOR"}
IsLeaf(c) == c.type = "ConditionFieldEqualsValueExpression"

\* the children of a node, as a sequence
Children(c) ==
    IF IsGroup(c) THEN c.subconditions
    ELSE IF c.type = "ConditionNOT" THEN <<c.subcondition>>
    ELSE IF c.type = "list" THEN c.items
    ELSE <<>>

RECURSIVE SubNodes(_)
\* a node and everything under it
SubNodes(c) ==
    {c} \cup UNION {SubNodes(Children(c)[i]) : i \in 1..Len(Children(c))}

KnownTypes ==
    {"ConditionAND", "ConditionOR", "ConditionNOT", "ConditionFieldEqualsValueExpression"}

HasWildcard(v) ==
    v.kind = "SigmaString" /\ \E i \in 1..Len(v.s) : v.s[i] \in SpecialChars

PlainString(v) == v.kind = "SigmaString" /\ ~HasWildcard(v)

\* a string literal in double quotes, for a literal with nothing to escape
Quoted(s) == <<"\"">> \o s \o <<"\"">>

\* the pattern of a SigmaString without its wildcard markers
Stripped(s) == SelectSeq(s, LAMBDA e : e \notin SpecialChars)

\* an Or the IN-list form applies to: two or more leaves on one field, all plain strings
Foldable(c) ==
    /\ c.type = "ConditionOR"
    /\ Len(c.subconditions) >= 2
    /\ \A i \in 1..Len(c.subconditions) :
          /\ IsLeaf(c.subconditions[i])
          /\ PlainString(c.subconditions[i].value)
          /\ c.subconditions[i].field = c.subconditions[1].field

\* no And, Or or list under c (or c itself) is without children
NoEmptyGroup(c) ==
    \A n \in SubNodes(c) : (IsGroup(n) \/ n.type = "list") => Children(n) # <<>>

\* every child of c is converted without an exception
ChildrenBuilt(c) ==
    \A i \in 1..Len(Children(c)) : build_condition(Children(c)[i]).err = ""

ChildTexts(c) == [i \in 1..Len(Children(c)) |-> build_condition(Children(c)[i]).text]

-----------------------------------------------------------------------------
(* C2 *)

\* C2, as stated: a negated And/Or is rendered 'not (' + its rendering + ')', and a
\* negated field comparison 'not f = v', with no parentheses around the atom.
C2_NegationBareAtom ==
    (pc = "built" /\ cond.type = "ConditionNOT" /\ ChildrenBuilt(cond)) =>
        /\ IsGroup(cond.subcondition) =>
              result.text = <<"n", "o", "t", " ", "(">> \o ChildTexts(cond)[1] \o <<")">>
        /\ IsLeaf(cond.subcondition) =>
              result.text = <<"n", "o", "t", " ">> \o ChildTexts(cond)[1]

\* C2, amended: every negation is rendered 'not (' + the operand's rendering + ')',
\* whether the operand is an And, an Or, a Not or a field comparison; so
\* Not(FieldEquals(f,"a")) is 'not (f = "a")' and Not(And(A,B)) is 'not (A and B)'.
C2_NegationAlwaysParenthesized ==
    /\ (pc = "built" /\ cond.type = "ConditionNOT" /\ ChildrenBuilt(cond)) =>
          /\ result.err = ""
          /\ result.text = <<"n", "o", "t", " ", "(">> \o ChildTexts(cond)[1] \o <<")">>
    /\ (pc = "built" /\ cond = ConditionNOT(LeafA)) =>
          Str(result.text) = "not (f = \"a\")"
    /\ (pc = "built" /\ cond = ConditionNOT(ConditionAND(<<LeafA, LeafB>>))) =>
          Str(result.text) = "not (f = \"a\" and g = \"b\")"

\* a negated field comparison has been converted, to the parenthesized form
C2_Witness ==
    /\ pc = "built"
    /\ cond = ConditionNOT(LeafA)
    /\ Str(result.text) = "not (f = \"a\")"

-----------------------------------------------------------------------------
(* C3 *)

\* C3: an And group is its children joined with ' and ', an Or group (that is no
\* IN list) its children joined with ' or ', and the group is in parentheses, at
\* every depth, the root included.
C3_GroupsParenthesized ==
    (pc = "built" /\ IsGroup(cond) /\ ~Foldable(cond) /\ ChildrenBuilt(cond)
        /\ NoEmptyGroup(cond) /\ Len(Children(cond)) >= 2) =>
        LET sep == IF cond.type = "ConditionAND"
                   THEN <<" ", "a", "n", "d", " ">> ELSE <<" ", "o", "r", " ">>
        IN  result.text = <<"(">> \o Join(sep, ChildTexts(cond)) \o <<")">>

-----------------------------------------------------------------------------
(* C5 *)

\* C5: an Or of plain-string comparisons on one field f is 'f in (v1,...,vn)', the
\* quoted values in child order; any other Or is its children joined with ' or ';
\* an And is never an IN list.
C5_OrToInFolding ==
    /\ (pc = "built" /\ Foldable(cond)) =>
          result.text =
              cond.subconditions[1].field \o <<" ", "i", "n", " ", "(">>
              \o Join(<<",">>, [i \in 1..Len(cond.subconditions) |->
                                    Quoted(cond.subconditions[i].value.s)])
              \o <<")">>
    /\ (pc = "built" /\ cond.type = "ConditionOR" /\ ~Foldable(cond)
            /\ ChildrenBuilt(cond)) =>
          \E open \in {<<>>, <<"(">>} : \E close \in {<<>>, <<")">>} :
              result.text = open \o Join(<<" ", "o", "r", " ">>, ChildTexts(cond)) \o close
    /\ (pc = "built" /\ cond.type = "ConditionAND" /\ ChildrenBuilt(cond)) =>
          \E open \in {<<>>, <<"(">>} : \E close \in {<<>>, <<")">>} :
              result.text = open \o Join(<<" ", "a", "n", "d", " ">>, ChildTexts(cond)) \o close

-----------------------------------------------------------------------------
(* C6 *)

\* C6: a comparison with a wildcard pattern ('x*', '*x', '*x*') is
\* 'field contains "x"', the markers removed; and the scenario's tree is converted
\* to the scenario's expression.
C6_WildcardsBecomeContains ==
    /\ (pc = "built" /\ IsLeaf(cond) /\ HasWildcard(cond.value)) =>
          /\ result.err = ""
          /\ result.text =
                 cond.field \o <<" ", "c", "o", "n", "t", "a", "i", "n", "s", " ">>
                 \o Quoted(Stripped(cond.value.s))
    /\ (pc = "built" /\ cond = ScenarioTree) =>
          /\ result.err = ""
          /\ Str(result.text) =
                 "(ProcessName = \"powershell.exe\" and (CommandLine contains \"-enc\" or CommandLine contains \"-e \"))"

-----------------------------------------------------------------------------
(* C7 *)

\* the unrecognized nodes of a condition
UnknownNodes(c) == {n \in SubNodes(c) : n.type \notin KnownTypes \cup {"list"}}

\* C7: a condition holding a node that is no And, Or, Not or field comparison ends
\* in the unsupported-construct error, which names the node's type; no query text
\* is returned.
C7_UnknownNodeIsFatal ==
    (pc = "built" /\ UnknownNodes(cond) # {}) =>
        /\ result.err = "NotImplementedError"
        /\ \E n \in UnknownNodes(cond) : result.detail = n.type
        /\ result.text = <<>>

\* the part of C7 that the conversion keeps: with an unrecognized node anywhere,
\* some exception ends the conversion and no query text is returned
UnknownNodeNeverRendered ==
    (pc = "built" /\ UnknownNodes(cond) # {}) =>
        result.err # "" /\ result.text = <<>>

-----------------------------------------------------------------------------
(* C8 *)

SupportedKinds ==
    {"SigmaString", "SigmaNumber", "SigmaBool", "SigmaRegularExpression",
     "SigmaCompareExpression"}

\* C8: a comparison whose literal is of no supported type ends the conversion in
\* an error; the literal is never rendered into the query.
C8_UnsupportedLiteralIsFatal ==
    (pc = "built"
        /\ \E n \in SubNodes(cond) : IsLeaf(n) /\ n.value.kind \notin SupportedKinds) =>
        result.err # ""

-----------------------------------------------------------------------------
(* C10 *)

\* C10: an And or Or, or a list of conditions, without children ends the
\* conversion in an error, at the root or under another node.
C10_EmptyGroupIsFatal ==
    (pc = "built"
        /\ \E n \in SubNodes(cond) :
              (IsGroup(n) \/ n.type = "list") /\ Children(n) = <<>>) =>
        result.err # ""

-----------------------------------------------------------------------------
(* C4: a reader of the emitted expression, with precedence not > and > or *)

Keywords == {<<"n", "o", "t">>, <<"a", "n", "d">>, <<"o", "r">>}

RECURSIVE WordEnd(_, _)
\* the position after the word that starts at i: a word ends at a space or a parenthesis
WordEnd(t, i) ==
    IF i > Len(t) \/ t[i] \in {" ", "(", ")"} THEN i ELSE WordEnd(t, i + 1)

RECURSIVE QuoteEnd(_, _)
\* the position after the string literal whose opening quote is before i (0: unterminated)
QuoteEnd(t, i) ==
    IF i > Len(t) THEN 0
    ELSE IF t[i] = "\\" THEN QuoteEnd(t, i + 2)
    ELSE IF t[i] = "\"" THEN i + 1
    ELSE QuoteEnd(t, i + 1)

\* the position after the comparison 'field = value' whose field starts at i (0: none)
AtomEnd(t, i) ==
    LET j == WordEnd(t, i)
    IN  IF j + 3 > Len(t) \/ SubSeq(t, j, j + 2) # <<" ", "=", " ">> THEN 0
        ELSE IF t[j + 3] = "\"" THEN QuoteEnd(t, j + 4)
        ELSE WordEnd(t, j + 3)

RECURSIVE Lex(_, _)
\* the tokens of t from position i on: parentheses, keywords and comparisons
Lex(t, i) ==
    IF i > Len(t) THEN <<>>
    ELSE IF t[i] = " " THEN Lex(t, i + 1)
    ELSE IF t[i] \in {"(", ")"} THEN <<[tok |-> t[i], text |-> <<>>]>> \o Lex(t, i + 1)
    ELSE IF SubSeq(t, i, WordEnd(t, i) - 1) \in Keywords
    THEN <<[tok |-> Str(SubSeq(t, i, WordEnd(t, i) - 1)), text |-> <<>>]>>
         \o Lex(t, WordEnd(t, i))
    ELSE IF AtomEnd(t, i) = 0 THEN <<[tok |-> "error", text |-> <<>>]>>
    ELSE <<[tok |-> "atom", text |-> SubSeq(t, i, AtomEnd(t, i) - 1)]>>
         \o Lex(t, AtomEnd(t, i))

NoParse == [ok |-> FALSE, pos |-> 0]
TokAt(ts, p) == IF p <= Len(ts) THEN ts[p].tok ELSE "end"

RECURSIVE ParseOr(_, _), ParseOrRest(_, _), ParseAnd(_, _), ParseAndRest(_, _), ParseNot(_, _)

\* or_expr ::= and_expr ('or' and_expr)*
ParseOr(ts, p) ==
    LET l == ParseAnd(ts, p) IN IF l.ok THEN ParseOrRest(ts, l) ELSE NoParse
ParseOrRest(ts, l) ==
    IF TokAt(ts, l.pos) # "or" THEN l
    ELSE LET r == ParseAnd(ts, l.pos + 1)
         IN  IF ~r.ok THEN NoParse
             ELSE ParseOrRest(ts, [ok |-> TRUE, pos |-> r.pos,
                                   ast |-> [op |-> "or", left |-> l.ast, right |-> r.ast]])
\* and_expr ::= not_expr ('and' not_expr)*
ParseAnd(ts, p) ==
    LET l == ParseNot(ts, p) IN IF l.ok THEN ParseAndRest(ts, l) ELSE NoParse
ParseAndRest(ts, l) ==
    IF TokAt(ts, l.pos) # "and" THEN l
    ELSE LET r == ParseNot(ts, l.pos + 1)
         IN  IF ~r.ok THEN NoParse
             ELSE ParseAndRest(ts, [ok |-> TRUE, pos |-> r.pos,
                                    ast |-> [op |-> "and", left |-> l.ast, right |-> r.ast]])
\* not_expr ::= 'not' not_expr | '(' or_expr ')' | comparison
ParseNot(ts, p) ==
    IF TokAt(ts, p) = "not"
    THEN LET a == ParseNot(ts, p + 1)
         IN  IF ~a.ok THEN NoParse
             ELSE [ok |-> TRUE, pos |-> a.pos, ast |-> [op |-> "not", arg |-> a.ast]]
    ELSE IF TokAt(ts, p) = "("
    THEN LET e == ParseOr(ts, p + 1)
         IN  IF e.ok /\ TokAt(ts, e.pos) = ")" THEN [e EXCEPT !.pos = e.pos + 1]
             ELSE NoParse
    ELSE IF TokAt(ts, p) = "atom"
    THEN [ok |-> TRUE, pos |-> p + 1, ast |-> [op |-> "atom", text |-> ts[p].text]]
    ELSE NoParse

\* the expression read from the whole text
Parse(t) ==
    LET ts == Lex(t, 1)
        e == ParseOr(ts, 1)
    IN  IF e.ok /\ e.pos = Len(ts) + 1 THEN e ELSE NoParse

RECURSIVE EvalAst(_, _)
\* the truth value of a read expression when exactly the comparisons in a hold
EvalAst(e, a) ==
    IF e.op = "atom" THEN e.text \in a
    ELSE IF e.op = "not" THEN ~EvalAst(e.arg, a)
    ELSE IF e.op = "and" THEN EvalAst(e.left, a) /\ EvalAst(e.right, a)
    ELSE EvalAst(e.left, a) \/ EvalAst(e.right, a)

\* the text of a plain comparison: field = "value"
LeafText(c) == c.field \o <<" ", "=", " ">> \o Quoted(c.value.s)

RECURSIVE EvalTree(_, _)
\* the truth value of a condition tree when exactly the comparisons in a hold
EvalTree(c, a) ==
    IF c.type = "ConditionNOT" THEN ~EvalTree(c.subcondition, a)
    ELSE IF c.type = "ConditionAND"
    THEN \A i \in 1..Len(c.subconditions) : EvalTree(c.subconditions[i], a)
    ELSE IF c.type = "ConditionOR"
    THEN \E i \in 1..Len(c.subconditions) : EvalTree(c.subconditions[i], a)
    ELSE LeafText(c) \in a

\* a tree of And, Or and Not over the two plain comparisons, no group empty
Boolean(c) ==
    /\ NoEmptyGroup(c)
    /\ \A n \in SubNodes(c) : n.type \in KnownTypes /\ (IsLeaf(n) => n \in {LeafA, LeafB})

Assignments == SUBSET {LeafText(LeafA), LeafText(LeafB)}

RECURSIVE Reference(_)
\* the rendering the precedence rules ask for: every group in parentheses
Reference(c) ==
    IF c.type = "ConditionNOT"
    THEN <<"n", "o", "t", " ", "(">> \o Reference(c.subcondition) \o <<")">>
    ELSE IF IsGroup(c)
    THEN <<"(">>
         \o Join(IF c.type = "ConditionAND" THEN <<" ", "a", "n", "d", " ">>
                 ELSE <<" ", "o", "r", " ">>,
                 [i \in 1..Len(c.subconditions) |-> Reference(c.subconditions[i])])
         \o <<")">>
    ELSE LeafText(c)

\* the reader recovers the meaning of every tree rendered with all its parentheses
ReaderIsSound ==
    (pc = "built" /\ Boolean(cond)) =>
        /\ Parse(Reference(cond)).ok
        /\ \A a \in Assignments :
              EvalAst(Parse(Reference(cond)).ast, a) = EvalTree(cond, a)

\* C4: reading the emitted expression with precedence not > and > or gives an
\* expression with the truth value of the tree under every truth assignment to
\* the comparisons.
C4_PrecedencePreserved ==
    (pc = "built" /\ Boolean(cond)) =>
        /\ result.err = ""
        /\ Parse(result.text).ok
        /\ \A a \in Assignments :
              EvalAst(Parse(result.text).ast, a) = EvalTree(cond, a)

-----------------------------------------------------------------------------
(* C9 *)

RECURSIVE Escaped(_)
\* s with a backslash before every double quote and every backslash
Escaped(s) ==
    IF s = <<>> THEN <<>>
    ELSE (IF Head(s) \in {"\"", "\\"} THEN <<"\\", Head(s)>> ELSE <<Head(s)>>)
         \o Escaped(Tail(s))

RECURSIVE Unescaped(_)
\* the inverse: a backslash stands for the character after it
Unescaped(t) ==
    IF t = <<>> THEN [ok |-> TRUE, text |-> <<>>]
    ELSE IF Head(t) = "\\"
    THEN IF Len(t) = 1 THEN [ok |-> FALSE, text |-> <<>>]
         ELSE LET r == Unescaped(Tail(Tail(t)))
              IN  [ok |-> r.ok, text |-> <<t[2]>> \o r.text]
    ELSE LET r == Unescaped(Tail(t))
         IN  [ok |-> r.ok, text |-> <<Head(t)>> \o r.text]

\* the text between the surrounding double quotes
Unquoted(t) ==
    IF Len(t) >= 2 /\ t[1] = "\"" /\ t[Len(t)] = "\""
    THEN [ok |-> TRUE, text |-> SubSeq(t, 2, Len(t) - 1)]
    ELSE [ok |-> FALSE, text |-> <<>>]

\* C9: escape_value of a string literal s is s in double quotes with exactly its
\* double quotes and backslashes backslash-escaped, and removing the quotes and
\* unescaping gives s back.
C9_EscapingRoundTrip ==
    (pc = "escaped" /\ PlainString(value)) =>
        /\ result.err = ""
        /\ result.text = Quoted(Escaped(value.s))
        /\ Unquoted(result.text).ok
        /\ Unescaped(Unquoted(result.text).text) = [ok |-> TRUE, text |-> value.s]

-----------------------------------------------------------------------------
(* C1 *)

\* the query text the finishing step is to give: q, and the column clause when
\* the rule names fields
Finished(r, q) ==
    IF r.fields # <<>>
    THEN q \o <<" ", "|", " ", "c", "o", "l", "u", "m", "n", "s", " ">> \o Join(<<",">>, r.fields)
    ELSE q

\* C1: in both output formats the finished query text is q followed by
\* ' | columns ' and the comma-joined fields when the rule has fields, and q alone
\* when it has none; the structured result carries that text with the rule's
\* title, id and description.
C1_FinalizeAppendsOnlyColumns ==
    /\ (pc = "finalized" /\ output_format = "default" /\ result.err = "") =>
          result.text = Finished(rule, query)
    /\ (pc = "finalized" /\ output_format = "json") =>
          result.json = [query |-> Finished(rule, query), title |-> rule.title,
                         id |-> rule.id, description |-> rule.description]

====
